---- MODULE Spec2Model ----
(***************************************************************************)
(* The device enrollment coordination protocol of the fitness tracking     *)
(* system (src/services/enrollmentService.js): a web client writes an      *)
(* enrollment command to a single-slot mailbox document, the fingerprint   *)
(* scanner's agent writes status back to the same document, and the client *)
(* follows the document through a snapshot subscription, a 3 minute timer  *)
(* and an operator cancel.                                                 *)
(*                                                                         *)
(* Strings the code inspects character by character (Name, Phone_Number)   *)
(* are sequences of one-character strings; messages are sequences of text  *)
(* parts; an optional value (undefined in the code) is the empty sequence  *)
(* and a present one a one-element sequence.                               *)
(***************************************************************************)
EXTENDS Integers, Sequences, FiniteSets, TLC

\* ------------------------------------------------------------ constants

ReachabilityWindow == 120000

EnrollmentTimeout == 180000

MinNameLen == 2

MaxNameLen == 50

MinAge == 1

MaxAge == 120

\* ---------------------------------------------------------------- bounds

\* The clock advances in steps of one minute, MaxTicks times at most.
Tick == ReachabilityWindow \div 2

MaxTicks == 3

MaxTime == MaxTicks * Tick

\* Calls of cancelEnrollment.
MaxCancels == 1

\* The two operators (browser sessions) that may each run one attempt.
Attempts == {"A", "B"}

\* Identifiers the fingerprint sensor may assign.
FingerprintIds == {1, 2}

DeviceId == "fingerprint_scanner_1"

\* ------------------------------------------------------- optional values

None == <<>>

Some(x) == <<x>>

IsSome(o) == o /= <<>>

Val(o) == o[1]

\* ------------------------------------------------------------ JS strings

Whitespace == {" "}

Digits == {"0", "1", "7"}

PhoneSymbols == {"-", "+", "(", ")"}

RECURSIVE TrimStart(_)
TrimStart(s) ==
    IF s /= <<>> /\ Head(s) \in Whitespace THEN TrimStart(Tail(s)) ELSE s

RECURSIVE TrimEnd(_)
TrimEnd(s) ==
    IF s /= <<>> /\ s[Len(s)] \in Whitespace
    THEN TrimEnd(SubSeq(s, 1, Len(s) - 1))
    ELSE s

\* String.prototype.trim
Trim(s) == TrimEnd(TrimStart(s))

\* /^[\d\s\-\+\(\)]+$/.test(s)
PhoneRegexTest(s) ==
    /\ Len(s) >= 1
    /\ \A i \in 1..Len(s) : s[i] \in Digits \cup Whitespace \cup PhoneSymbols

\* An Age is undefined, a number, or the text of a number typed into a form
\* field ("" when the field was left empty).
NoAge == [kind |-> "undefined", n |-> 0]

AgeNum(n) == [kind |-> "number", n |-> n]

AgeStr(n) == [kind |-> "string", n |-> n]

AgeEmptyStr == [kind |-> "emptystring", n |-> 0]

\* JS truthiness of memberData.Age: undefined, 0 and "" are falsy.
AgeTruthy(age) ==
    \/ age.kind = "number" /\ age.n /= 0
    \/ age.kind = "string"

\* The age as a number in a comparison (a numeric string converts).
AgeSupplied(age) == age.kind \in {"number", "string"}

\* ------------------------------------------------------------ validation

ValidationOk == <<>>

NameMissing(m) == m.Name = None \/ Val(m.Name) = <<>> \/ Trim(Val(m.Name)) = <<>>

AgeCheckFails(m) == AgeTruthy(m.Age) /\ (m.Age.n < MinAge \/ m.Age.n > MaxAge)

PhoneCheckFails(m) ==
    /\ m.Phone_Number /= None
    /\ Val(m.Phone_Number) /= <<>>
    /\ ~PhoneRegexTest(Val(m.Phone_Number))

\* validateMemberData: the message of the error it throws, or ValidationOk.
validateMemberData(m) ==
    IF NameMissing(m) THEN <<"Missing required fields: ", "Name">>
    ELSE IF Len(Val(m.Name)) < MinNameLen
         THEN <<"Name must be at least 2 characters long">>
    ELSE IF Len(Val(m.Name)) > MaxNameLen
         THEN <<"Name must be less than 50 characters long">>
    ELSE IF AgeCheckFails(m) THEN <<"Age must be between 1 and 120">>
    ELSE IF PhoneCheckFails(m)
         THEN <<"Phone number contains invalid characters">>
    ELSE ValidationOk

\* ------------------------------------------------------------- documents

NoDoc == [exists |-> FALSE]

\* gyms/{gymId}/devices/{deviceId}: the presence document the agent keeps.
DeviceDoc(lastSeen, status) ==
    [exists |-> TRUE, last_seen |-> lastSeen, status |-> status]

\* gyms/{gymId}/devices/{deviceId}/commands/enroll: the mailbox.
NoTempId == <<>>

\* Faulty variant: every call uses the same tempId.
TempIdShared(a) == <<"temp", "shared">>

\* `temp_${Date.now()}_${random}`: what matters of it is that no two calls
\* draw the same one; each call's is named after the call.
TempId(a) == <<"temp", a>>

StaleTempId == TempId("stale")

EnrollmentCommand(tempId, name) ==
    [exists |-> TRUE, status |-> "pending", tempId |-> tempId,
     memberName |-> name, fingerprintId |-> None, message |-> None]

\* A command left behind by an attempt of an earlier session.
StaleDoc ==
    [exists |-> TRUE, status |-> "completed", tempId |-> StaleTempId,
     memberName |-> Some(<<"Z", "o", "e">>), fingerprintId |-> Some(1),
     message |-> None]

\* JS truthiness of data.fingerprintId (a number) and of a message string.
FingerprintTruthy(fp) == IsSome(fp) /\ Val(fp) /= 0

MessageTruthy(msg) == IsSome(msg) /\ Val(msg) /= <<>>

\* ---------------------------------------------------- checkDeviceStatus

Unavailable(reason) == [available |-> FALSE, reason |-> reason]

\* now - lastSeen > 120000, where a missing last_seen makes the difference
\* NaN and the comparison false.
HeartbeatTooOld(doc, t) ==
    IsSome(doc.last_seen) /\ t - Val(doc.last_seen) > ReachabilityWindow

checkDeviceStatus(doc, t) ==
    IF ~doc.exists
    THEN Unavailable(<<"Device not found - check device ID and ensure ESP32 is registered">>)
    ELSE IF HeartbeatTooOld(doc, t)
    THEN Unavailable(<<"Device offline - last seen ",
                       ToString((t - Val(doc.last_seen)) \div 1000), "s ago">>)
    ELSE IF doc.status /= "online"
    THEN Unavailable(<<"Device status: ", doc.status>>)
    ELSE [available |-> TRUE, reason |-> <<"Device is online and ready">>]

\* ----------------------------------------------------------------- state

VARIABLES
    now,          \* the wall clock, in milliseconds
    device,       \* the device presence document
    mailbox,      \* the mailbox document (commands/enroll)
    members,      \* gyms/{gymId}/members, by document key
    att,          \* each operator's call of createMemberAndStartEnrollment
    cancelCalls,  \* per call of cancelEnrollment so far: the attempts
                  \* that had already ended when it was made
    capturing,    \* the device agent has a capture to report on
    listener,     \* the page's listenToEnrollmentStatus registration
    page,         \* the enrollment page of operator "A"
    today,        \* the calendar day, as a day number
    auth,         \* the signed-in user, session storage and getGymInfo calls
    payments      \* gyms/{gymId}/members/{key}/payments, by member key

vars == <<now, device, mailbox, members, att, cancelCalls, capturing, listener,
          page, today, auth, payments>>

\* What the enrollment call and the device agent leave alone.
appVars == <<page, today, auth, payments>>

MemberKey(f) == ToString(f)

MemberKeys == {MemberKey(f) : f \in FingerprintIds}

\* parseInt of a document key.
ParseInt(k) == CHOOSE f \in FingerprintIds : ToString(f) = k

Idle ==
    [pc |-> "idle", data |-> None, deviceStatus |-> None, tempId |-> NoTempId,
     timer |-> "unarmed", armedAt |-> 0, sub |-> "none", queue |-> <<>>,
     result |-> None, outcome |-> "pending", error |-> None, type |-> None,
     settledBy |-> None, memberKey |-> None, gymMemberId |-> None]

\* No listenToEnrollmentStatus registration yet; seen is what onStatusChange
\* has been called with.
NoListener == [sub |-> "none", queue |-> <<>>, seen |-> <<>>]

\* The enrollment page as mounted: useState("idle"), useState(null),
\* useState([]); form is the form data handleSubmit passed on, awaiting
\* is isLoading, mounted ends when the page navigates away.
NoPage ==
    [enrollmentState |-> "idle", assignedFingerprintId |-> None,
     devices |-> <<>>, form |-> None, awaiting |-> FALSE, mounted |-> TRUE]

\* No payment document under any member.
NoPayments == [k \in MemberKeys |-> <<>>]

\* Nobody signed in, session storage empty, no getGymInfo call made, no
\* auth-state change to hand to AuthProvider, whose user and gymInfo are
\* null; the login page is not submitting.
NoAuth ==
    [user |-> None, cache |-> None, calls |-> <<>>, events |-> <<>>,
     ctxUser |-> None, ctxGymInfo |-> None, submitting |-> FALSE]

Member(name, age, phone) == [Name |-> name, Age |-> age, Phone_Number |-> phone]

NameOf(a) == IF a = "A" THEN <<"A", "l">> ELSE <<"B", "o", "b">>

\* What an operator submits: a complete form, or one with the name blank.
Inputs(a) ==
    {Member(Some(NameOf(a)), AgeStr(30), Some(<<"0", "7", "1">>)),
     Member(Some(<<" ">>), AgeEmptyStr, None)}

\* The scanner's last heartbeat was written at time 0.
InitDevices == {DeviceDoc(Some(0), "online")}

Init ==
    /\ now = 0
    /\ device \in InitDevices
    /\ mailbox \in {NoDoc, StaleDoc}
    /\ members = [k \in MemberKeys |-> NoDoc]
    /\ att = [a \in Attempts |-> Idle]
    /\ cancelCalls = <<>>
    /\ capturing = FALSE
    /\ listener = NoListener
    /\ page = NoPage
    /\ today = 0
    /\ auth = NoAuth
    /\ payments = NoPayments

\* --------------------------------------- createMemberAndStartEnrollment

\* ---------------------------------------------------------- getErrorType

\* The words getErrorType looks for that occur in a part of a message,
\* lower-cased (message.toLowerCase().includes(word)); the parts are the
\* texts the service builds its messages from.
KeywordsOf(text) ==
    CASE text = "Enrollment timeout - ESP32 device did not respond within 3 minutes"
            -> {"timeout", "device"}
      [] text = "Enrollment was cancelled" -> {"cancelled"}
      [] text = "Firebase connection error: " -> {"firebase", "connection"}
      [] text = "Device " -> {"device"}
      [] text = "fingerprint_scanner_1" -> {"fingerprint"}
      [] text = "Device not found - check device ID and ensure ESP32 is registered"
            -> {"device"}
      [] text = "Device offline - last seen " -> {"device", "offline"}
      [] text = "Device status: " -> {"device"}
      [] text = "offline" -> {"offline"}
      [] text = "Missing required fields: " -> {"required"}
      [] text = "Enrollment failed on the device." -> {"device"}
      [] text = "sensor timeout" -> {"sensor", "timeout"}
      [] OTHER -> {}

\* message.includes(word)
Includes(msg, word) == \E i \in 1..Len(msg) : word \in KeywordsOf(msg[i])

getErrorType(msg) ==
    IF Includes(msg, "timeout") THEN "timeout"
    ELSE IF Includes(msg, "device") /\ Includes(msg, "offline")
    THEN "device_offline"
    ELSE IF Includes(msg, "firebase") \/ Includes(msg, "firestore")
    THEN "database_error"
    ELSE IF Includes(msg, "network") \/ Includes(msg, "connection")
    THEN "network_error"
    ELSE IF Includes(msg, "validation") \/ Includes(msg, "required")
    THEN "validation_error"
    ELSE IF Includes(msg, "cancelled") THEN "user_cancelled"
    ELSE IF Includes(msg, "sensor") \/ Includes(msg, "fingerprint")
    THEN "hardware_error"
    ELSE "unknown_error"

\* The catch block: the call rejects with the error's message and the
\* type getErrorType gives it.
Reject(r, msg) ==
    [r EXCEPT !.pc = "done", !.outcome = "rejected", !.error = Some(msg),
              !.type = Some(getErrorType(msg))]

\* ---------------------------------------------------------- retryEnrollment

\* memberData.retryAttempt || 0
RetryAttemptOf(m) == IF "retryAttempt" \in DOMAIN m THEN m.retryAttempt ELSE 0

\* retryMemberData: the form with the retry counted.
RetryMemberData(m) ==
    [Name |-> m.Name, Age |-> m.Age, Phone_Number |-> m.Phone_Number,
     retryAttempt |-> RetryAttemptOf(m) + 1]

\* throw new Error(`Retry failed: ${error.message}`)
RetryFailedMessage(msg) == <<"Retry failed: ">> \o msg

\* What the caller of a rejected call catches: the call's own error, or
\* retryEnrollment's when the call was made through it.
Thrown(r) ==
    IF RetryAttemptOf(Val(r.data)) > 0 THEN RetryFailedMessage(Val(r.error))
    ELSE Val(r.error)

UnavailableMessage(status) ==
    <<"Device ", DeviceId, " is not available: ">> \o status.reason

\* Number.toString() and String.padStart.
DigitChars == <<"0", "1", "2", "3", "4", "5", "6", "7", "8", "9">>

RECURSIVE NatToString(_)
NatToString(n) ==
    IF n < 10 THEN <<DigitChars[n + 1]>>
    ELSE NatToString(n \div 10) \o <<DigitChars[(n % 10) + 1]>>

RECURSIVE PadStart(_, _, _)
PadStart(str, len, fill) ==
    IF Len(str) >= len THEN str ELSE PadStart(<<fill>> \o str, len, fill)

\* snapshot.size of getDocs(membersRef)
MemberCount(ms) == Cardinality({k \in DOMAIN ms : ms[k].exists})

\* generateGymMemberId: `FN${(snapshot.size + 1).toString().padStart(3, "0")}`
\* (its catch branch, for a getDocs that fails, is not taken here).
generateGymMemberId(ms) ==
    <<"F", "N">> \o PadStart(NatToString(MemberCount(ms) + 1), 3, "0")

\* memberData.gymMemberId || (await generateGymMemberId(gymId))
GymMemberIdFor(m, ms) ==
    IF "gymMemberId" \in DOMAIN m /\ m.gymMemberId /= <<>>
    THEN m.gymMemberId
    ELSE generateGymMemberId(ms)

\* The call up to the command write: validateMemberData, then
\* await checkDeviceStatus, which reads the device document; a validation
\* error or an unavailable device ends the call; otherwise the gymMemberId
\* is settled, from the members stored then.
Begin(a, m) ==
    /\ att[a].pc = "idle"
    /\ LET status == checkDeviceStatus(device, now) IN
       att' = [att EXCEPT ![a] =
          IF validateMemberData(m) /= ValidationOk
          THEN Reject([@ EXCEPT !.data = Some(m)], validateMemberData(m))
          ELSE IF ~status.available
          THEN Reject([@ EXCEPT !.data = Some(m), !.deviceStatus = Some(status)],
                      UnavailableMessage(status))
          ELSE [@ EXCEPT !.pc = "writing", !.data = Some(m),
                         !.deviceStatus = Some(status),
                         !.gymMemberId = Some(GymMemberIdFor(m, members))]]
    /\ UNCHANGED <<now, device, mailbox, members, cancelCalls, capturing, listener, appVars>>

\* retryEnrollment for a call that was rejected: the same form goes
\* through createMemberAndStartEnrollment again, as a new call.
retryEnrollment(a, b) ==
    /\ a /= b
    /\ att[a].outcome = "rejected"
    /\ Begin(b, RetryMemberData(Val(att[a].data)))

\* The store hands a written version of the mailbox to every open listener.
Publish(as, doc) ==
    [a \in Attempts |->
        IF as[a].sub = "open" THEN [as[a] EXCEPT !.queue = Append(@, doc)]
        ELSE as[a]]

\* ... and to the page's listener while it is registered.
Notify(l, doc) ==
    IF l.sub = "open" THEN [l EXCEPT !.queue = Append(@, doc)] ELSE l

\* await setDoc(commandRef, enrollmentCommand): the mailbox is overwritten.
WriteCommand(a) ==
    /\ att[a].pc = "writing"
    /\ LET id == TempId(a) IN
       /\ mailbox' = EnrollmentCommand(id, Val(att[a].data).Name)
       /\ att' = [Publish(att, mailbox') EXCEPT
                    ![a].pc = "subscribing", ![a].tempId = id]
       /\ listener' = Notify(listener, mailbox')
    /\ capturing' = TRUE
    /\ UNCHANGED <<now, device, members, cancelCalls, appVars>>

\* Faulty variant: the listener is handed later writes only.
SubscribeLate(a) ==
    /\ att[a].pc = "subscribing"
    /\ att' = [att EXCEPT ![a].pc = "waiting", ![a].timer = "armed",
                          ![a].armedAt = now, ![a].sub = "open",
                          ![a].queue = <<>>]
    /\ UNCHANGED <<now, device, mailbox, members, cancelCalls, capturing, listener, appVars>>

\* waitForEnrollmentCompletion: the timer is armed and the listener
\* attached; its first snapshot is the document as it is now.
Subscribe(a) ==
    /\ att[a].pc = "subscribing"
    /\ att' = [att EXCEPT ![a].pc = "waiting", ![a].timer = "armed",
                          ![a].armedAt = now, ![a].sub = "open",
                          ![a].queue = <<mailbox>>]
    /\ UNCHANGED <<now, device, mailbox, members, cancelCalls, capturing, listener, appVars>>

\* ------------------------------------------- waitForEnrollmentCompletion

TimeoutMessage ==
    <<"Enrollment timeout - ESP32 device did not respond within 3 minutes">>

CancelledMessage == <<"Enrollment was cancelled">>

UnknownFailureMessage == <<"Enrollment failed - unknown error">>

ConnectionMessage(cause) == <<"Firebase connection error: ">> \o cause

\* Faulty variant: the callback without the tempId comparison.
IsOursAny(data, tempId) == TRUE

\* Faulty variant: a completed status is taken whatever its tempId.
IsOursOrCompleted(data, tempId) ==
    data.tempId = tempId \/ data.status = "completed"

\* data.tempId === tempId
IsOurs(data, tempId) == data.tempId = tempId

\* Faulty variant: a fingerprintId alone is taken as completion.
IsCompletionLoose(data) == FingerprintTruthy(data.fingerprintId)

\* data.status === "completed" && data.fingerprintId
IsCompletion(data) ==
    data.status = "completed" /\ FingerprintTruthy(data.fingerprintId)

\* data.message || fallback
MessageOr(msg, fallback) == IF MessageTruthy(msg) THEN Val(msg) ELSE fallback

\* Faulty variant: clearTimeout without unsubscribe().
StopWaitingKeepsListener(r, data) ==
    [r EXCEPT !.timer = "cleared", !.armedAt = 0, !.settledBy = Some(data)]

\* clearTimeout(timeout); unsubscribe()
StopWaiting(r, data) ==
    [r EXCEPT !.timer = "cleared", !.armedAt = 0, !.sub = "closed",
              !.queue = <<>>, !.settledBy = Some(data)]

\* Faulty variant: the completed branch without clearTimeout.
OnCompletedKeepsTimer(r, data) ==
    [r EXCEPT !.sub = "closed", !.queue = <<>>, !.settledBy = Some(data),
              !.pc = "finalizing",
              !.result = Some([success |-> TRUE,
                               fingerprintId |-> ToString(Val(data.fingerprintId)),
                               message |-> MessageOr(data.message,
                                             <<"Enrollment completed successfully">>)])]

\* resolve({success: true, fingerprintId: data.fingerprintId.toString(), ...})
OnCompleted(r, data) ==
    [StopWaiting(r, data) EXCEPT
        !.pc = "finalizing",
        !.result = Some([success |-> TRUE,
                         fingerprintId |-> ToString(Val(data.fingerprintId)),
                         message |-> MessageOr(data.message,
                                       <<"Enrollment completed successfully">>)])]

\* Faulty variant: the device's message is dropped.
OnFailedGeneric(r, data) == Reject(StopWaiting(r, data), UnknownFailureMessage)

\* reject(new Error(data.message || "Enrollment failed - unknown error"))
OnFailed(r, data) ==
    Reject(StopWaiting(r, data), MessageOr(data.message, UnknownFailureMessage))

\* reject(new Error("Enrollment was cancelled"))
OnCancelled(r, data) == Reject(StopWaiting(r, data), CancelledMessage)

\* Faulty variant: a progress report clears the timeout.
OnSnapshotProgressClearsTimer(r, data) ==
    IF ~data.exists THEN r
    ELSE IF ~IsOurs(data, r.tempId) THEN r
    ELSE IF IsCompletion(data) THEN OnCompleted(r, data)
    ELSE IF data.status = "failed" THEN OnFailed(r, data)
    ELSE IF data.status = "in_progress"
    THEN [r EXCEPT !.timer = "cleared", !.armedAt = 0]
    ELSE IF data.status = "cancelled" THEN OnCancelled(r, data)
    ELSE r

\* The snapshot callback on one version of the mailbox document.
OnSnapshot(r, data) ==
    IF ~data.exists THEN r
    ELSE IF ~IsOurs(data, r.tempId) THEN r
    ELSE IF IsCompletion(data) THEN OnCompleted(r, data)
    ELSE IF data.status = "failed" THEN OnFailed(r, data)
    ELSE IF data.status = "in_progress" THEN r
    ELSE IF data.status = "cancelled" THEN OnCancelled(r, data)
    ELSE r

\* The store delivers the next version of the mailbox to an open listener.
Deliver(a) ==
    /\ att[a].sub = "open"
    /\ att[a].queue /= <<>>
    /\ att' = [att EXCEPT ![a] =
          OnSnapshot([@ EXCEPT !.queue = Tail(@)], Head(att[a].queue))]
    /\ UNCHANGED <<now, device, mailbox, members, cancelCalls, capturing, listener, appVars>>

\* Faulty variant: the timeout callback without unsubscribe().
OnTimeoutKeepsListener(r) ==
    Reject([r EXCEPT !.timer = "fired", !.armedAt = 0], TimeoutMessage)

\* Faulty variant: the timeout callback unsubscribes and does not reject.
OnTimeoutSilent(r) ==
    [r EXCEPT !.timer = "fired", !.armedAt = 0, !.sub = "closed", !.queue = <<>>]

\* The setTimeout callback: unsubscribe(), then reject.
OnTimeout(r) ==
    Reject([r EXCEPT !.timer = "fired", !.armedAt = 0, !.sub = "closed",
                     !.queue = <<>>],
           TimeoutMessage)

\* Faulty variant: the timer set to the two minute presence window.
TimerDueEarly(r, t) == r.timer = "armed" /\ t - r.armedAt >= ReachabilityWindow

\* A timer fires no earlier than its delay after it was armed.
TimerDue(r, t) == r.timer = "armed" /\ t - r.armedAt >= EnrollmentTimeout

\* Faulty variant: the timeout callback also marks the command.
TimerFireMarksCommand(a) ==
    /\ TimerDue(att[a], now)
    /\ mailbox' = [mailbox EXCEPT !.status = "timeout"]
    /\ att' = [Publish(att, mailbox') EXCEPT ![a] = OnTimeout(att[a])]
    /\ listener' = Notify(listener, mailbox')
    /\ UNCHANGED <<now, device, members, cancelCalls, capturing, appVars>>

TimerFire(a) ==
    /\ TimerDue(att[a], now)
    /\ att' = [att EXCEPT ![a] = OnTimeout(@)]
    /\ UNCHANGED <<now, device, mailbox, members, cancelCalls, capturing, listener, appVars>>

\* Faulty variant: the error callback without clearTimeout.
OnListenerErrorKeepsTimer(r, cause) ==
    Reject([r EXCEPT !.sub = "errored", !.queue = <<>>], ConnectionMessage(cause))

\* The listener's error callback: clearTimeout, reject. The store ends a
\* listener it reports an error on; the callback does not unsubscribe.
OnListenerError(r, cause) ==
    Reject([r EXCEPT !.timer = "cleared", !.armedAt = 0, !.sub = "errored",
                     !.queue = <<>>],
           ConnectionMessage(cause))

TransportCauses == {<<"unavailable">>}

SubError(a, cause) ==
    /\ att[a].sub = "open"
    /\ att' = [att EXCEPT ![a] = OnListenerError(@, cause)]
    /\ UNCHANGED <<now, device, mailbox, members, cancelCalls, capturing, listener, appVars>>

\* ------------------------------------------------------------ finalization

\* result.success && result.fingerprintId
ResultOk(result) == result.success /\ result.fingerprintId /= ""

\* finalMemberData: the form's fields and the enrollment's.
FinalMemberData(m, gymMemberId, result, deviceId) ==
    [exists |-> TRUE, Name |-> m.Name, Age |-> m.Age,
     Phone_Number |-> m.Phone_Number, gymMemberId |-> gymMemberId,
     fingerprintId |-> ParseInt(result.fingerprintId),
     id |-> result.fingerprintId,
     enrollmentStatus |-> "completed", enrolledBy |-> deviceId]

\* After the wait resolved: await setDoc(newMemberRef, finalMemberData),
\* then the call returns its result.
Finalize(a) ==
    /\ att[a].pc = "finalizing"
    /\ LET result == Val(att[a].result) IN
       IF ResultOk(result)
       THEN /\ members' = [members EXCEPT ![result.fingerprintId] =
                   FinalMemberData(Val(att[a].data), Val(att[a].gymMemberId),
                                   result, DeviceId)]
            /\ att' = [att EXCEPT ![a].pc = "done", ![a].outcome = "resolved",
                                  ![a].memberKey = Some(result.fingerprintId)]
       ELSE /\ members' = members
            /\ att' = [att EXCEPT ![a] =
                   Reject(@, <<"Enrollment failed on the device.">>)]
    /\ UNCHANGED <<now, device, mailbox, cancelCalls, capturing, listener, appVars>>

\* --------------------------------------------------------- cancelEnrollment

\* Faulty variant: the cancel written with setDoc, which replaces the
\* document and so loses its tempId.
CancelOverwrite(doc) == [doc EXCEPT !.status = "cancelled", !.tempId = NoTempId]

\* The attempts whose wait is over.
Ended == {a \in Attempts : att[a].pc \in {"finalizing", "done"}}

\* updateDoc(commandRef, {status: "cancelled", ...}): the other fields of
\* the document stay; on a missing document updateDoc throws and the call
\* fails with "Failed to cancel enrollment".
CancelUpdate(doc) == [doc EXCEPT !.status = "cancelled"]

cancelEnrollment ==
    /\ Len(cancelCalls) < MaxCancels
    /\ cancelCalls' = Append(cancelCalls, Ended)
    /\ mailbox' = IF mailbox.exists THEN CancelUpdate(mailbox) ELSE mailbox
    /\ att' = IF mailbox.exists THEN Publish(att, mailbox') ELSE att
    /\ listener' = IF mailbox.exists THEN Notify(listener, mailbox')
                   ELSE listener
    /\ UNCHANGED <<now, device, members, capturing, appVars>>

\* ------------------------------------------------------------ environment

\* What the device agent may report on the command in its mailbox.
AgentReports ==
    {[status |-> "in_progress", fingerprintId |-> None, message |-> None],
     [status |-> "failed", fingerprintId |-> None, message |-> None],
     [status |-> "failed", fingerprintId |-> None,
      message |-> Some(<<"sensor timeout">>)],
     [status |-> "completed", fingerprintId |-> None, message |-> None]}
    \cup {[status |-> "completed", fingerprintId |-> Some(f), message |-> None] :
            f \in FingerprintIds}

AgentUpdate(doc, rep) ==
    [doc EXCEPT !.status = rep.status, !.fingerprintId = rep.fingerprintId,
                !.message = rep.message]

IsTerminalReport(rep) == rep.status \in {"completed", "failed"}

\* The command's life on the device: the agent takes up each command
\* written to its mailbox, may report in_progress while the command is
\* pending, and ends the capture with completed or failed; an agent that
\* has not seen a cancel still ends the capture it began.
AgentMayReport(doc, rep) ==
    /\ doc.exists
    /\ capturing
    /\ rep.status = "in_progress" => doc.status = "pending"

\* The device agent writes a status to the command document.
AgentWrite(rep) ==
    /\ AgentMayReport(mailbox, rep)
    /\ mailbox' = AgentUpdate(mailbox, rep)
    /\ att' = Publish(att, mailbox')
    /\ listener' = Notify(listener, mailbox')
    /\ capturing' = ~IsTerminalReport(rep)
    /\ UNCHANGED <<now, device, members, cancelCalls, appVars>>

\* Time passes.
Advance ==
    /\ now < MaxTime
    /\ now' = now + Tick
    /\ UNCHANGED <<device, mailbox, members, att, cancelCalls, capturing, listener, appVars>>

Next ==
    \/ \E a \in Attempts : \E m \in Inputs(a) : Begin(a, m)
    \/ \E a \in Attempts : WriteCommand(a)
    \/ \E a \in Attempts : Subscribe(a)
    \/ \E a \in Attempts : Deliver(a)
    \/ \E a \in Attempts : TimerFire(a)
    \/ \E a \in Attempts : \E cause \in TransportCauses : SubError(a, cause)
    \/ \E a \in Attempts : Finalize(a)
    \/ cancelEnrollment
    \/ \E rep \in AgentReports : AgentWrite(rep)
    \/ Advance

Spec == Init /\ [][Next]_vars

\* ----------------------------------------------- the device's presence

\* Device documents an operator may meet: none, one without a heartbeat,
\* one whose last heartbeat was written at time 0.
PresenceDevices ==
    {NoDoc, DeviceDoc(None, "online"), DeviceDoc(None, "busy"),
     DeviceDoc(Some(0), "online"), DeviceDoc(Some(0), "busy")}

InitPresence ==
    /\ now = 0
    /\ device \in PresenceDevices
    /\ mailbox \in {NoDoc, StaleDoc}
    /\ members = [k \in MemberKeys |-> NoDoc]
    /\ att = [a \in Attempts |-> Idle]
    /\ cancelCalls = <<>>
    /\ capturing = FALSE
    /\ listener = NoListener
    /\ page = NoPage
    /\ today = 0
    /\ auth = NoAuth
    /\ payments = NoPayments

\* The device agent's heartbeat: last_seen and status are written.
Heartbeat(status) ==
    /\ device' = DeviceDoc(Some(now), status)
    /\ UNCHANGED <<now, mailbox, members, att, cancelCalls, capturing, listener, appVars>>

\* One operator's call, up to its command, against a device whose presence
\* changes.
NextPresence ==
    \/ \E m \in Inputs("A") : Begin("A", m)
    \/ WriteCommand("A")
    \/ \E status \in {"online", "busy"} : Heartbeat(status)
    \/ Advance

SpecPresence == InitPresence /\ [][NextPresence]_vars

\* ------------------------------------------------ the forms submitted

Chars(n, c) == [i \in 1..n |-> c]

FormNames ==
    {None, Some(<<>>), Some(<<" ">>), Some(<<" ", " ">>), Some(<<"A">>),
     Some(<<"A", "l">>), Some(<<" ", "A">>), Some(Chars(MaxNameLen, "a")),
     Some(Chars(MaxNameLen + 1, "a"))}

FormAgeValues == {0 - 1, 0, MinAge, 30, MaxAge, MaxAge + 1}

FormAges ==
    {NoAge, AgeEmptyStr} \cup {AgeNum(n) : n \in FormAgeValues}
    \cup {AgeStr(n) : n \in FormAgeValues}

FormPhones ==
    {None, Some(<<>>), Some(<<"0", "7", "1">>),
     Some(<<"+", "(", "0", ")", " ", "-", "1">>), Some(<<"0", "x">>),
     Some(<<"#">>)}

AllInputs ==
    {Member(n, a, p) : n \in FormNames, a \in FormAges, p \in FormPhones}

\* One operator's call, up to its command, on every form.
NextValidation ==
    \/ \E m \in AllInputs : Begin("A", m)
    \/ WriteCommand("A")

SpecValidation == Init /\ [][NextValidation]_vars

\* ------------------------------------------------------------ a retry

\* Operator A's call, and B as the retry of it once it has been rejected.
NextRetry ==
    \/ \E m \in Inputs("A") : Begin("A", m)
    \/ retryEnrollment("A", "B")
    \/ \E a \in Attempts : WriteCommand(a)
    \/ \E a \in Attempts : Subscribe(a)
    \/ \E a \in Attempts : Deliver(a)
    \/ \E a \in Attempts : TimerFire(a)
    \/ \E a \in Attempts : \E cause \in TransportCauses : SubError(a, cause)
    \/ \E a \in Attempts : Finalize(a)
    \/ cancelEnrollment
    \/ \E rep \in AgentReports : AgentWrite(rep)
    \/ Advance

SpecRetry == Init /\ [][NextRetry]_vars

\* ------------------------------------------------------------ progress

\* Time does not stop while a timer is armed and not yet due.
AdvanceToTimer ==
    /\ \E a \in Attempts : att[a].timer = "armed" /\ ~TimerDue(att[a], now)
    /\ now' = now + Tick
    /\ UNCHANGED <<device, mailbox, members, att, cancelCalls, capturing, listener, appVars>>

\* What the browser's event loop and the clock guarantee: a call that can
\* take its next step takes it, a snapshot handed to an open listener is
\* delivered, a due timer fires, and time passes. Nothing is guaranteed of
\* the device, the operator's cancel or the transport.
Progress ==
    /\ WF_vars(Advance \/ AdvanceToTimer)
    /\ \A a \in Attempts :
          /\ WF_vars(WriteCommand(a))
          /\ WF_vars(Subscribe(a))
          /\ WF_vars(Deliver(a))
          /\ WF_vars(TimerFire(a))
          /\ WF_vars(Finalize(a))

\* A second operator starts a call while the first one's is waiting.
BeginSecond(a, b, m) ==
    /\ a /= b
    /\ att[a].pc = "waiting"
    /\ Begin(b, m)

\* Operator A's call and operator B's, begun while A's waits, with a
\* transport that does not fail and no cancel.
NextSuperseded ==
    \/ \E m \in Inputs("A") : Begin("A", m)
    \/ \E m \in Inputs("B") : BeginSecond("A", "B", m)
    \/ \E a \in Attempts : WriteCommand(a)
    \/ \E a \in Attempts : Subscribe(a)
    \/ \E a \in Attempts : Deliver(a)
    \/ \E a \in Attempts : TimerFire(a)
    \/ \E a \in Attempts : Finalize(a)
    \/ \E rep \in AgentReports : AgentWrite(rep)
    \/ Advance
    \/ AdvanceToTimer

SpecSuperseded == Init /\ [][NextSuperseded]_vars /\ Progress

\* One operator's call with everything that may happen to it: any device
\* report or none, a cancel, a failing transport.
NextLive ==
    \/ \E m \in Inputs("A") : Begin("A", m)
    \/ WriteCommand("A")
    \/ Subscribe("A")
    \/ Deliver("A")
    \/ TimerFire("A")
    \/ \E cause \in TransportCauses : SubError("A", cause)
    \/ Finalize("A")
    \/ cancelEnrollment
    \/ \E rep \in AgentReports : AgentWrite(rep)
    \/ Advance
    \/ AdvanceToTimer

SpecLive == Init /\ [][NextLive]_vars /\ Progress

\* ------------------------------------------- listenToEnrollmentStatus

\* statusUpdate: what onStatusChange is called with.
StatusUpdate(data) ==
    [status |-> data.status, fingerprintId |-> data.fingerprintId,
     message |-> data.message, memberName |-> data.memberName,
     tempId |-> data.tempId]

\* onStatusChange({status: "error", message: `Connection error: ...`})
ErrorUpdate(cause) ==
    [status |-> "error", fingerprintId |-> None,
     message |-> Some(<<"Connection error: ">> \o cause), memberName |-> None,
     tempId |-> NoTempId]

\* return onSnapshot(commandRef, ...): the first snapshot is the document
\* as it is now.
listenToEnrollmentStatus ==
    /\ listener.sub = "none"
    /\ listener' = [sub |-> "open", queue |-> <<mailbox>>, seen |-> <<>>]
    /\ UNCHANGED <<now, device, mailbox, members, att, cancelCalls, capturing, appVars>>

\* Faulty variant: the update built without the document's fingerprintId.
OnStatusSnapshotNoFingerprint(l, data) ==
    IF data.exists
    THEN [l EXCEPT !.seen =
            Append(@, [StatusUpdate(data) EXCEPT !.fingerprintId = None])]
    ELSE l

\* The listener's snapshot callback.
OnStatusSnapshot(l, data) ==
    IF data.exists THEN [l EXCEPT !.seen = Append(@, StatusUpdate(data))]
    ELSE l

ListenerDeliver ==
    /\ listener.sub = "open"
    /\ listener.queue /= <<>>
    /\ listener' = OnStatusSnapshot([listener EXCEPT !.queue = Tail(@)],
                                    Head(listener.queue))
    /\ UNCHANGED <<now, device, mailbox, members, att, cancelCalls, capturing, appVars>>

\* The listener's error callback; the store ends the listener.
ListenerError(cause) ==
    /\ listener.sub = "open"
    /\ listener' = [listener EXCEPT !.sub = "errored", !.queue = <<>>,
                                    !.seen = Append(@, ErrorUpdate(cause))]
    /\ UNCHANGED <<now, device, mailbox, members, att, cancelCalls, capturing, appVars>>

\* The unsubscribe handle listenToEnrollmentStatus returned is called.
unsubscribe ==
    /\ listener.sub = "open"
    /\ listener' = [listener EXCEPT !.sub = "closed", !.queue = <<>>]
    /\ UNCHANGED <<now, device, mailbox, members, att, cancelCalls, capturing, appVars>>

\* A page that watches the mailbox while one operator enrolls, the device
\* reports and cancels are made.
NextObserve ==
    \/ \E m \in Inputs("A") : Begin("A", m)
    \/ WriteCommand("A")
    \/ Subscribe("A")
    \/ Deliver("A")
    \/ Finalize("A")
    \/ cancelEnrollment
    \/ \E rep \in AgentReports : AgentWrite(rep)
    \/ listenToEnrollmentStatus
    \/ ListenerDeliver
    \/ \E cause \in TransportCauses : ListenerError(cause)
    \/ unsubscribe

SpecObserve == Init /\ [][NextObserve]_vars

\* ------------------------------------------------- the enrollment page

\* getAvailableDevices: one entry per device document; a missing
\* last_seen makes timeDiff Infinity; status || "unknown".
DeviceEntry(doc, t) ==
    [id |-> DeviceId,
     status |-> IF doc.status = "" THEN "unknown" ELSE doc.status,
     isOnline |-> IF IsSome(doc.last_seen)
                  THEN t - Val(doc.last_seen) < ReachabilityWindow
                  ELSE FALSE]

getAvailableDevices(doc, t) ==
    IF doc.exists THEN <<DeviceEntry(doc, t)>> ELSE <<>>

\* fetchAvailableDevices, run when the page mounts: setDevices(deviceList).
fetchAvailableDevices ==
    /\ page.mounted
    /\ page.form = None
    /\ page' = [page EXCEPT !.devices = getAvailableDevices(device, now)]
    /\ UNCHANGED <<now, device, mailbox, members, att, cancelCalls, capturing,
                   listener, today, auth, payments>>

\* devices.find((d) => d.id === selectedDevice) and device.isOnline
SelectedDeviceOnline(p) ==
    \E i \in 1..Len(p.devices) :
        p.devices[i].id = DeviceId /\ p.devices[i].isOnline

\* The submit button is disabled while loading, while processing and
\* after success.
SubmitEnabled(p) ==
    /\ p.mounted
    /\ ~p.awaiting
    /\ p.enrollmentState \notin {"processing", "success"}

\* handleSubmit up to its await: the early returns, then "requesting",
\* then the listener is registered and createMemberAndStartEnrollment is
\* called with the form.
handleSubmit(m) ==
    /\ SubmitEnabled(page)
    /\ att["A"].pc = "idle"
    /\ listener.sub = "none"
    /\ IsSome(m.Name) /\ Trim(Val(m.Name)) /= <<>>
    /\ SelectedDeviceOnline(page)
    /\ page' = [page EXCEPT !.enrollmentState = "requesting",
                            !.form = Some(m), !.awaiting = TRUE]
    /\ listener' = [sub |-> "open", queue |-> <<mailbox>>, seen |-> <<>>]
    /\ UNCHANGED <<now, device, mailbox, members, att, cancelCalls, capturing,
                   today, auth, payments>>

\* The call handleSubmit made, up to its command write.
SubmitCall ==
    /\ page.awaiting
    /\ Begin("A", Val(page.form))

\* The callback handleSubmit registered: the switch on statusUpdate.status.
onStatusChange(p, u) ==
    CASE u.status = "pending" -> [p EXCEPT !.enrollmentState = "waiting"]
      [] u.status = "in_progress" ->
            [p EXCEPT !.enrollmentState = "processing"]
      [] u.status = "completed" ->
            [p EXCEPT !.enrollmentState = "success",
                      !.assignedFingerprintId = u.fingerprintId]
      [] u.status \in {"failed", "cancelled", "error"} ->
            [p EXCEPT !.enrollmentState = "failed"]
      [] OTHER -> p

\* A snapshot reaches the page's listener and, through it, the callback.
PageDeliver ==
    /\ page.mounted
    /\ listener.sub = "open"
    /\ listener.queue /= <<>>
    /\ LET data == Head(listener.queue) IN
       /\ listener' = OnStatusSnapshot([listener EXCEPT !.queue = Tail(@)],
                                       data)
       /\ page' = IF data.exists THEN onStatusChange(page, StatusUpdate(data))
                  ELSE page
    /\ UNCHANGED <<now, device, mailbox, members, att, cancelCalls, capturing,
                   today, auth, payments>>

\* The page's listener fails: the callback gets the error update.
PageListenerError(cause) ==
    /\ page.mounted
    /\ listener.sub = "open"
    /\ listener' = [listener EXCEPT !.sub = "errored", !.queue = <<>>,
                                    !.seen = Append(@, ErrorUpdate(cause))]
    /\ page' = onStatusChange(page, ErrorUpdate(cause))
    /\ UNCHANGED <<now, device, mailbox, members, att, cancelCalls, capturing,
                   today, auth, payments>>

\* handleSubmit after its await: the result's fingerprintId and "success",
\* or the catch block's "failed"; finally setIsLoading(false).
SubmitSettled ==
    /\ page.mounted
    /\ page.awaiting
    /\ att["A"].pc = "done"
    /\ page' = IF att["A"].outcome = "resolved"
               THEN [page EXCEPT !.enrollmentState = "success",
                        !.assignedFingerprintId =
                            Some(ParseInt(Val(att["A"].result).fingerprintId)),
                        !.awaiting = FALSE]
               ELSE [page EXCEPT !.enrollmentState = "failed",
                                 !.awaiting = FALSE]
    /\ UNCHANGED <<now, device, mailbox, members, att, cancelCalls, capturing,
                   listener, today, auth, payments>>

Cancellable == {"requesting", "waiting", "processing"}

\* handleCancel: while an enrollment shows as under way, cancelEnrollment
\* for the selected device; then navigate("/members"), which unmounts the
\* page and so ends its listener.
handleCancel ==
    /\ page.mounted
    /\ LET cancels == page.enrollmentState \in Cancellable
           written == cancels /\ mailbox.exists IN
       /\ cancels => Len(cancelCalls) < MaxCancels
       /\ cancelCalls' = IF cancels THEN Append(cancelCalls, Ended)
                         ELSE cancelCalls
       /\ mailbox' = IF written THEN CancelUpdate(mailbox) ELSE mailbox
       /\ att' = IF written THEN Publish(att, mailbox') ELSE att
    /\ listener' = IF listener.sub = "open"
                   THEN [listener EXCEPT !.sub = "closed", !.queue = <<>>]
                   ELSE listener
    /\ page' = [page EXCEPT !.mounted = FALSE]
    /\ UNCHANGED <<now, device, members, capturing, today, auth, payments>>

\* handleRetry, offered when the page shows "failed".
handleRetry ==
    /\ page.mounted
    /\ page.enrollmentState = "failed"
    /\ page' = [page EXCEPT !.enrollmentState = "idle",
                            !.assignedFingerprintId = None,
                            !.awaiting = FALSE]
    /\ listener' = IF listener.sub = "open"
                   THEN [listener EXCEPT !.sub = "closed", !.queue = <<>>]
                   ELSE listener
    /\ UNCHANGED <<now, device, mailbox, members, att, cancelCalls, capturing,
                   today, auth, payments>>

\* Operator "A" enrolls through the page while operator "B" calls the
\* service on the same device and the device reports.
InitPage ==
    /\ now = 0
    /\ device \in {DeviceDoc(Some(0), "online"), DeviceDoc(Some(0), "busy"),
                   DeviceDoc(None, "online")}
    /\ mailbox \in {NoDoc, StaleDoc}
    /\ members = [k \in MemberKeys |-> NoDoc]
    /\ att = [a \in Attempts |-> Idle]
    /\ cancelCalls = <<>>
    /\ capturing = FALSE
    /\ listener = NoListener
    /\ page = NoPage
    /\ today = 0
    /\ auth = NoAuth
    /\ payments = NoPayments

NextPage ==
    \/ fetchAvailableDevices
    \/ \E m \in Inputs("A") : handleSubmit(m)
    \/ SubmitCall
    \/ \E m \in Inputs("B") : Begin("B", m)
    \/ \E a \in Attempts : WriteCommand(a)
    \/ \E a \in Attempts : Subscribe(a)
    \/ \E a \in Attempts : Deliver(a)
    \/ \E a \in Attempts : Finalize(a)
    \/ \E rep \in AgentReports : AgentWrite(rep)
    \/ PageDeliver
    \/ \E cause \in TransportCauses : PageListenerError(cause)
    \/ SubmitSettled
    \/ handleCancel
    \/ handleRetry

SpecPage == InitPage /\ [][NextPage]_vars

\* ------------------------------------------------- members and payments

\* A field of a document that may lack it.
Get(doc, field) == IF field \in DOMAIN doc THEN Some(doc[field]) ELSE None

\* updateDoc(ref, fields): the named fields are written, the others stay.
Merge(doc, fields) ==
    [f \in DOMAIN doc \cup DOMAIN fields |->
        IF f \in DOMAIN fields THEN fields[f] ELSE doc[f]]

\* Dates are kept as "YYYY-MM-DD" strings, which compare as the days they
\* name; a date string is the number of its day.  setDate(getDate() + 30)
BillingPeriod == 30

DaysLater(day) == day + BillingPeriod

DayStep == BillingPeriod \div 2

MaxDays == 3

MaxPayments == 1

\* gyms/{gymId}/membershipTiers: one tier.
TierId == "basic"

TierPrice == 2500

TierInputs == {"", TierId}

\* deleteMember: deleteDoc(memberRef)
deleteMember(k) ==
    /\ members' = [members EXCEPT ![k] = NoDoc]
    /\ UNCHANGED <<now, device, mailbox, att, cancelCalls, capturing, listener,
                   appVars>>

\* createMemberWithFingerprintId: setDoc with the form's fields,
\* parseInt of the key, enrollmentStatus and createdAt.
createMemberWithFingerprintId(k, name) ==
    /\ members' = [members EXCEPT ![k] =
          [exists |-> TRUE, Name |-> name, Payment_Status |-> "Unpaid",
           fingerprintId |-> ParseInt(k), enrollmentStatus |-> "completed",
           createdAt |-> today]]
    /\ UNCHANGED <<now, device, mailbox, att, cancelCalls, capturing, listener,
                   appVars>>

\* assignMembershipTier: the tier is read, then updateDoc, which throws on
\* a missing member.
assignMembershipTier(k) ==
    /\ members[k].exists
    /\ members' = [members EXCEPT ![k] =
          Merge(@, [membershipTierId |-> TierId,
                    nextPaymentDue |-> DaysLater(today),
                    updatedAt |-> today])]
    /\ UNCHANGED <<now, device, mailbox, att, cancelCalls, capturing, listener,
                   appVars>>

\* paymentHistory || []
PaymentHistoryOf(doc) ==
    IF IsSome(Get(doc, "paymentHistory")) THEN doc.paymentHistory ELSE <<>>

\* recordPayment: the payment is appended to the document's paymentHistory
\* and the due date moves 30 days on from the one stored, or from today.
recordPayment(k) ==
    /\ members[k].exists
    /\ Len(PaymentHistoryOf(members[k])) < MaxPayments
    /\ LET currentDue == IF IsSome(Get(members[k], "nextPaymentDue"))
                         THEN members[k].nextPaymentDue ELSE today
           paymentRecord == [amount |-> TierPrice, date |-> today]
       IN  members' = [members EXCEPT ![k] =
              Merge(@, [Payment_Status |-> "Paid",
                        lastPaymentDate |-> today,
                        nextPaymentDue |-> DaysLater(currentDue),
                        paymentHistory |->
                            Append(PaymentHistoryOf(@), paymentRecord),
                        updatedAt |-> today])]
    /\ UNCHANGED <<now, device, mailbox, att, cancelCalls, capturing, listener,
                   appVars>>

\* What recordTierBasedPayment passes to updateMember, with the updatedAt
\* updateMember adds.
TierPaymentUpdate(day) ==
    [Payment_Status |-> "Paid", lastPaymentDate |-> day,
     nextPaymentDueDate |-> DaysLater(day), updatedAt |-> day]

\* recordTierBasedPayment for a tier that exists: addDoc to the member's
\* payments, then updateMember, whose updateDoc throws on a missing member
\* (a blank or unknown tier throws before anything is written).
recordTierBasedPayment(k, tier) ==
    /\ tier = TierId
    /\ Len(payments[k]) < MaxPayments
    /\ payments' = [payments EXCEPT ![k] =
          Append(@, [amountPaid |-> TierPrice, paymentDate |-> today,
                     membershipTierId |-> tier])]
    /\ members' = IF members[k].exists
                  THEN [members EXCEPT ![k] = Merge(@, TierPaymentUpdate(today))]
                  ELSE members
    /\ UNCHANGED <<now, device, mailbox, att, cancelCalls, capturing, listener,
                   page, today, auth>>

\* One member of updatePaymentStatuses' loop: a paid member whose
\* nextPaymentDue is past becomes Unpaid; a member never billed gets its
\* first due date 30 days after createdAt once that is past.
SweepMember(doc, day) ==
    LET due == Get(doc, "nextPaymentDue")
        status == Get(doc, "Payment_Status")
        created == Get(doc, "createdAt")
    IN  IF IsSome(due) /\ Val(due) < day /\ status = Some("Paid")
        THEN Merge(doc, [Payment_Status |-> "Unpaid", updatedAt |-> day])
        ELSE IF /\ status \in {Some("Unpaid"), None, Some("")}
                /\ PaymentHistoryOf(doc) = <<>>
                /\ IsSome(created)
                /\ due = None
                /\ DaysLater(Val(created)) < day
        THEN Merge(doc, [nextPaymentDue |-> DaysLater(Val(created)),
                         Payment_Status |-> "Unpaid", updatedAt |-> day])
        ELSE doc

Sweep(ms, day) ==
    [k \in DOMAIN ms |-> IF ms[k].exists THEN SweepMember(ms[k], day) ELSE ms[k]]

\* updatePaymentStatuses
updatePaymentStatuses ==
    /\ members' = Sweep(members, today)
    /\ UNCHANGED <<now, device, mailbox, att, cancelCalls, capturing, listener,
                   appVars>>

\* getOverdueMembers: the keys of the members it returns.
getOverdueMembers(ms, day) ==
    {k \in DOMAIN ms :
        /\ ms[k].exists
        /\ IsSome(Get(ms[k], "nextPaymentDue"))
        /\ ms[k].nextPaymentDue < day
        /\ Get(ms[k], "Payment_Status") /= Some("Paid")}

\* Days pass.
NextDay ==
    /\ today < MaxDays * DayStep
    /\ today' = today + DayStep
    /\ UNCHANGED <<now, device, mailbox, members, att, cancelCalls, capturing,
                   listener, page, auth, payments>>

\* Members are created, assigned a tier, billed and swept over the days.
NextPayments ==
    \/ \E k \in MemberKeys : createMemberWithFingerprintId(k, NameOf("A"))
    \/ \E k \in MemberKeys : assignMembershipTier(k)
    \/ \E k \in MemberKeys : recordPayment(k)
    \/ \E k \in MemberKeys : \E tier \in TierInputs :
          recordTierBasedPayment(k, tier)
    \/ updatePaymentStatuses
    \/ NextDay

SpecPayments == Init /\ [][NextPayments]_vars

\* Two operators enroll on the device while members are billed and
\* deleted.
NextMembers ==
    \/ \E a \in Attempts : \E m \in Inputs(a) : Begin(a, m)
    \/ \E a \in Attempts : WriteCommand(a)
    \/ \E a \in Attempts : Subscribe(a)
    \/ \E a \in Attempts : Deliver(a)
    \/ \E a \in Attempts : Finalize(a)
    \/ \E rep \in AgentReports : AgentWrite(rep)
    \/ \E k \in MemberKeys : recordPayment(k)
    \/ \E k \in MemberKeys : deleteMember(k)

SpecMembers == Init /\ [][NextMembers]_vars

\* ------------------------------------------------------ the gym of a user

Users == {"u1", "u2"}

\* gym_admins/{userId}.gym_id
GymOf(u) == IF u = "u1" THEN "gymA" ELSE "gymB"

\* gyms/{gymId}.name
GymName(g) == IF g = "gymA" THEN "Alpha" ELSE "Beta"

MaxCalls == 3

\* The gymInfo getGymInfo builds from the two documents.
GymInfoOf(u) == [id |-> GymOf(u), name |-> GymName(GymOf(u))]

\* JSON.stringify(gymInfo) and JSON.parse of it.
Stringify(info) == <<"{", "id", info.id, "name", info.name, "}">>

Parse(json) == [id |-> json[3], name |-> json[5]]

\* getGymInfo(userId) up to its first await: what session storage holds
\* under "gymInfo" is returned at once, else the documents are read.
GetGymInfoCall(u, cache, caller) ==
    IF IsSome(cache)
    THEN [userId |-> u, caller |-> caller, pc |-> "returned",
          result |-> Some(Parse(Val(cache)))]
    ELSE [userId |-> u, caller |-> caller, pc |-> "fetching", result |-> None]

\* The login page shows: AuthProvider has no user with gym info.
LoginPageShown(s) == ~(IsSome(s.ctxUser) /\ IsSome(s.ctxGymInfo))

\* The login page's handleSubmit: loginWithEmail signs the user in, which
\* raises an auth-state change, and calls getGymInfo(user.uid).
loginWithEmail(u) ==
    /\ LoginPageShown(auth)
    /\ ~auth.submitting
    /\ Len(auth.calls) < MaxCalls
    /\ LET call == GetGymInfoCall(u, auth.cache, "login") IN
       auth' = [auth EXCEPT !.user = Some(u),
                            !.events = Append(@, Some(u)),
                            !.calls = Append(@, call),
                            !.submitting = (call.pc = "fetching")]
    /\ UNCHANGED <<now, device, mailbox, members, att, cancelCalls, capturing,
                   listener, page, today, payments>>

\* AuthProvider's onAuthStateChanged callback: for a user, the cached gym
\* info is used or getGymInfo is called; for no user, user and gymInfo are
\* reset and the cached gym info is removed.
onAuthStateChanged ==
    /\ auth.events /= <<>>
    /\ LET e == Head(auth.events) IN
       IF IsSome(e)
       THEN IF IsSome(auth.cache)
            THEN auth' = [auth EXCEPT !.events = Tail(@), !.ctxUser = e,
                             !.ctxGymInfo = Some(Parse(Val(auth.cache)))]
            ELSE /\ Len(auth.calls) < MaxCalls
                 /\ auth' = [auth EXCEPT !.events = Tail(@), !.ctxUser = e,
                       !.calls = Append(@, GetGymInfoCall(Val(e), auth.cache,
                                                          "context"))]
       ELSE auth' = [auth EXCEPT !.events = Tail(@), !.ctxUser = None,
                                 !.ctxGymInfo = None, !.cache = None]
    /\ UNCHANGED <<now, device, mailbox, members, att, cancelCalls, capturing,
                   listener, page, today, payments>>

\* getGymInfo after its reads: the gymInfo of userId is cached and
\* returned; AuthProvider sets what its call returned, the login page ends
\* its submit.
GetGymInfoReturn(i) ==
    /\ i \in 1..Len(auth.calls)
    /\ auth.calls[i].pc = "fetching"
    /\ LET info == GymInfoOf(auth.calls[i].userId)
           caller == auth.calls[i].caller IN
       auth' = [auth EXCEPT
                  !.cache = Some(Stringify(info)),
                  !.calls[i].pc = "returned",
                  !.calls[i].result = Some(info),
                  !.ctxGymInfo = IF caller = "context" THEN Some(info) ELSE @,
                  !.submitting = IF caller = "login" THEN FALSE ELSE @]
    /\ UNCHANGED <<now, device, mailbox, members, att, cancelCalls, capturing,
                   listener, page, today, payments>>

\* logout, from the navigation shown to a user with gym info: signOut,
\* which raises an auth-state change, then sessionStorage.clear(); the
\* login page that shows next is a new one.
logout ==
    /\ ~LoginPageShown(auth)
    /\ IsSome(auth.user)
    /\ auth' = [auth EXCEPT !.user = None, !.cache = None,
                            !.events = Append(@, None),
                            !.submitting = FALSE]
    /\ UNCHANGED <<now, device, mailbox, members, att, cancelCalls, capturing,
                   listener, page, today, payments>>

NextAuth ==
    \/ \E u \in Users : loginWithEmail(u)
    \/ onAuthStateChanged
    \/ \E i \in 1..MaxCalls : GetGymInfoReturn(i)
    \/ logout

SpecAuth == Init /\ [][NextAuth]_vars

\* ==================================================================
\* The claims
\* ==================================================================

\* The step hands attempt a the snapshot at the head of its queue.
Consumes(a) ==
    /\ att[a].sub = "open"
    /\ att[a].queue /= <<>>
    /\ att'[a].timer /= "fired"
    /\ att'[a].sub /= "errored"
    /\ \/ att'[a].queue = Tail(att[a].queue)
       \/ att'[a].settledBy = Some(Head(att[a].queue))

IsCancelCall == Len(cancelCalls') = Len(cancelCalls) + 1

\* C1: correlation isolation. A snapshot that resolved or rejected an
\* attempt carried that attempt's own tempId, and never the tempId of the
\* other attempt on the same mailbox.
C1_CorrelationIsolation ==
    \A a \in Attempts :
        IsSome(att[a].settledBy) =>
            /\ Val(att[a].settledBy).tempId = att[a].tempId
            /\ \A b \in Attempts \ {a} :
                  Val(att[a].settledBy).tempId /= att[b].tempId

\* B was resolved by the completed status now in the mailbox, which A's
\* open listener has been handed too, and A still waits.
C1_Witness ==
    /\ att["B"].settledBy = Some(mailbox)
    /\ mailbox.status = "completed"
    /\ att["A"].pc = "waiting"
    /\ att["A"].sub = "open"
    /\ att["A"].queue = <<>>

\* C2: finalization gate. An attempt has written a Member document only
\* after it was handed a snapshot with its own tempId, status completed and
\* a fingerprintId, at that fingerprintId's key; an attempt that ended
\* after such a snapshot has written one; a rejected attempt has written
\* none; and every Member document was written by an attempt.
C2_FinalizationGate ==
    /\ \A a \in Attempts :
          LET r == att[a] IN
          /\ IsSome(r.memberKey) =>
                /\ IsSome(r.settledBy)
                /\ Val(r.settledBy).status = "completed"
                /\ IsSome(Val(r.settledBy).fingerprintId)
                /\ Val(r.settledBy).tempId = r.tempId
                /\ Val(r.memberKey) =
                      MemberKey(Val(Val(r.settledBy).fingerprintId))
          /\ (/\ r.pc = "done"
              /\ IsSome(r.settledBy)
              /\ Val(r.settledBy).status = "completed") =>
                /\ IsSome(r.memberKey)
                /\ r.outcome = "resolved"
          /\ r.outcome = "rejected" => r.memberKey = None
    /\ \A k \in MemberKeys :
          members[k].exists => \E a \in Attempts : att[a].memberKey = Some(k)

\* A enrolled a member while B's attempt was rejected by a failed status.
C2_Witness ==
    /\ att["A"].outcome = "resolved"
    /\ IsSome(att["A"].memberKey)
    /\ members[Val(att["A"].memberKey)].exists
    /\ att["B"].outcome = "rejected"
    /\ IsSome(att["B"].settledBy)
    /\ Val(att["B"].settledBy).status = "failed"

\* The device document does not make the device eligible: no document, no
\* last_seen, a last_seen older than 120 seconds, or a status not "online".
Ineligible(doc, t) ==
    \/ ~doc.exists
    \/ doc.last_seen = None
    \/ t - Val(doc.last_seen) > ReachabilityWindow
    \/ doc.status /= "online"

\* C3: availability gate. A call with a valid form against a device whose
\* heartbeat is older than 120 seconds or missing, or whose status is not
\* "online", is rejected as device-unavailable and leaves the mailbox as it
\* was.
C3_AvailabilityGate ==
    [][\A a \in Attempts :
          (/\ att[a].pc = "idle"
           /\ att'[a].pc /= "idle"
           /\ validateMemberData(Val(att'[a].data)) = ValidationOk
           /\ Ineligible(device, now)) =>
             /\ att'[a].pc = "done"
             /\ att'[a].outcome = "rejected"
             /\ mailbox' = mailbox]_vars

\* C4: timeout. An attempt is rejected with the timeout error only by its
\* timer, at least 180 seconds after the timer was armed and with no
\* matching terminal snapshot handed to it; the subscription is closed in
\* the same step; a firing timer always rejects so; and every waiting
\* attempt has its timer armed.
C4_Timeout ==
    [][\A a \in Attempts :
          /\ (att[a].outcome = "pending" /\ att'[a].error = Some(TimeoutMessage)) =>
                /\ att[a].timer = "armed"
                /\ now - att[a].armedAt >= EnrollmentTimeout
                /\ att'[a].timer = "fired"
                /\ att'[a].sub = "closed"
                /\ att'[a].outcome = "rejected"
                /\ att'[a].settledBy = None
          /\ (att[a].timer = "armed" /\ att'[a].timer = "fired") =>
                att'[a].error = Some(TimeoutMessage)
          /\ att'[a].pc = "waiting" =>
                att'[a].timer = "armed" /\ att'[a].sub = "open"]_vars

\* An attempt timed out while the device was still reporting progress on
\* its command.
C4_Witness ==
    \E a \in Attempts :
        /\ att[a].timer = "fired"
        /\ att[a].error = Some(TimeoutMessage)
        /\ mailbox.tempId = att[a].tempId
        /\ mailbox.status = "in_progress"

\* C5: cancel after terminal. A call of cancelEnrollment changes nothing of
\* an attempt whose wait is over (its outcome, its closed subscription, to
\* which nothing more is handed) and leaves the Member documents alone.
C5_CancelAfterTerminal ==
    [][IsCancelCall =>
          /\ members' = members
          /\ \A a \in Attempts :
                att[a].pc \in {"finalizing", "done"} => att'[a] = att[a]]_vars

\* A cancel was called on the command of an attempt that had already
\* enrolled its member.
C5_Witness ==
    \E a \in Attempts :
        /\ cancelCalls /= <<>>
        /\ a \in cancelCalls[1]
        /\ att[a].outcome = "resolved"
        /\ mailbox.status = "cancelled"
        /\ mailbox.tempId = att[a].tempId

\* What the claim counts as an invalid form.
ClaimNameInvalid(m) ==
    \/ m.Name = None
    \/ Trim(Val(m.Name)) = <<>>
    \/ Len(Val(m.Name)) < MinNameLen
    \/ Len(Val(m.Name)) > MaxNameLen

ClaimAgeInvalid(m) ==
    AgeSupplied(m.Age) /\ (m.Age.n < MinAge \/ m.Age.n > MaxAge)

ClaimPhoneInvalid(m) ==
    /\ IsSome(m.Phone_Number)
    /\ \E i \in 1..Len(Val(m.Phone_Number)) :
          Val(m.Phone_Number)[i] \notin Digits \cup Whitespace \cup PhoneSymbols

ClaimInvalid(m) ==
    ClaimNameInvalid(m) \/ ClaimAgeInvalid(m) \/ ClaimPhoneInvalid(m)

\* C6: validation gate. A call whose form has a missing, blank, too short
\* or too long Name, a supplied Age outside [1,120] (0 included) or a
\* Phone_Number with a character outside the allowed set has been rejected
\* without reading the device and without a command; every other form has
\* passed validation (the device was read).
C6_ValidationGate ==
    \A a \in Attempts :
        IsSome(att[a].data) =>
            IF ClaimInvalid(Val(att[a].data))
            THEN /\ att[a].pc = "done"
                 /\ att[a].outcome = "rejected"
                 /\ att[a].deviceStatus = None
                 /\ att[a].tempId = NoTempId
            ELSE IsSome(att[a].deviceStatus)

\* C7: hardware failure. An attempt that was handed a failed status for
\* its tempId has its timer cancelled and its subscription closed, is
\* rejected with the device's message (the fallback text when the device
\* gave none) and has written no Member document.
C7_HardwareFailure ==
    \A a \in Attempts :
        (IsSome(att[a].settledBy) /\ Val(att[a].settledBy).status = "failed") =>
            LET d == Val(att[a].settledBy) IN
            /\ att[a].timer = "cleared"
            /\ att[a].sub = "closed"
            /\ att[a].pc = "done"
            /\ att[a].outcome = "rejected"
            /\ att[a].error =
                  IF IsSome(d.message) THEN d.message
                  ELSE Some(UnknownFailureMessage)
            /\ att[a].memberKey = None
            /\ att[a].result = None

\* An attempt was rejected with the device's "sensor timeout".
C7_Witness ==
    \E a \in Attempts :
        /\ IsSome(att[a].settledBy)
        /\ Val(att[a].settledBy).status = "failed"
        /\ att[a].error = Some(<<"sensor timeout">>)

\* C8: operator cancellation. A call of cancelEnrollment on an existing
\* mailbox sets its status to cancelled and keeps its tempId, and the new
\* version is handed to every open subscription; an attempt that is handed
\* a cancelled status for its tempId cancels its timer, closes its
\* subscription and is rejected with the user-cancelled error, without a
\* Member document.
C8_OperatorCancel ==
    [][\A a \in Attempts :
          /\ (IsCancelCall /\ mailbox.exists) =>
                /\ mailbox'.status = "cancelled"
                /\ mailbox'.tempId = mailbox.tempId
                /\ att[a].sub = "open" =>
                      att'[a].queue = Append(att[a].queue, mailbox')
          /\ (/\ Consumes(a)
              /\ Head(att[a].queue).tempId = att[a].tempId
              /\ Head(att[a].queue).status = "cancelled") =>
                /\ att'[a].settledBy = Some(Head(att[a].queue))
                /\ att'[a].timer = "cleared"
                /\ att'[a].sub = "closed"
                /\ att'[a].pc = "done"
                /\ att'[a].outcome = "rejected"
                /\ att'[a].error = Some(CancelledMessage)
                /\ att'[a].memberKey = None]_vars

\* An attempt was rejected by the cancel of its own pending command.
C8_Witness ==
    \E a \in Attempts :
        /\ IsSome(att[a].settledBy)
        /\ Val(att[a].settledBy).status = "cancelled"
        /\ Val(att[a].settledBy).tempId = att[a].tempId
        /\ att[a].error = Some(CancelledMessage)
        /\ cancelCalls /= <<>>

\* C9: protocol violation. The step that hands an attempt a snapshot with
\* its tempId and status completed but no fingerprintId rejects the
\* attempt, with an error that is not the timeout error.
C9_ProtocolViolation ==
    [][\A a \in Attempts :
          (/\ Consumes(a)
           /\ Head(att[a].queue).tempId = att[a].tempId
           /\ Head(att[a].queue).status = "completed"
           /\ ~IsSome(Head(att[a].queue).fingerprintId)) =>
             /\ att'[a].outcome = "rejected"
             /\ att'[a].error /= Some(TimeoutMessage)]_vars

\* C10: subscription error. An attempt whose subscription reported a
\* transport error has its timer cancelled, has no listener left to hand
\* snapshots to, is rejected with the connection error carrying the cause,
\* and has written no Member document.
C10_SubscriptionError ==
    \A a \in Attempts :
        att[a].sub = "errored" =>
            /\ att[a].timer = "cleared"
            /\ att[a].queue = <<>>
            /\ att[a].pc = "done"
            /\ att[a].outcome = "rejected"
            /\ \E cause \in TransportCauses :
                  att[a].error = Some(<<"Firebase connection error: ">> \o cause)
            /\ att[a].memberKey = None
            /\ att[a].result = None

\* A subscription failed while the device had already completed the capture.
C10_Witness ==
    \E a \in Attempts :
        /\ att[a].sub = "errored"
        /\ mailbox.tempId = att[a].tempId
        /\ mailbox.status = "completed"

\* C11: success result and key. An attempt handed a completed status with
\* its tempId and fingerprintId f cancels its timer and closes its
\* subscription; its next step writes the Member document at key f, with
\* field fingerprintId = f and the form's attributes, touches no other
\* Member document and resolves with fingerprintId f and memberId f.
C11_SuccessResult ==
    [][\A a \in Attempts :
          /\ (/\ Consumes(a)
              /\ Head(att[a].queue).tempId = att[a].tempId
              /\ Head(att[a].queue).status = "completed"
              /\ IsSome(Head(att[a].queue).fingerprintId)) =>
                /\ att'[a].pc = "finalizing"
                /\ att'[a].settledBy = Some(Head(att[a].queue))
                /\ att'[a].timer = "cleared"
                /\ att'[a].sub = "closed"
                /\ members' = members
          /\ (att[a].pc = "finalizing" /\ att'[a].pc /= "finalizing") =>
                LET f == Val(Val(att[a].settledBy).fingerprintId)
                    k == MemberKey(f)
                    m == Val(att[a].data)
                IN  /\ att[a].timer = "cleared"
                    /\ att[a].sub = "closed"
                    /\ members'[k].exists
                    /\ members'[k].fingerprintId = f
                    /\ members'[k].id = k
                    /\ members'[k].Name = m.Name
                    /\ members'[k].Age = m.Age
                    /\ members'[k].Phone_Number = m.Phone_Number
                    /\ \A j \in MemberKeys \ {k} : members'[j] = members[j]
                    /\ att'[a].pc = "done"
                    /\ att'[a].outcome = "resolved"
                    /\ Val(att'[a].result).fingerprintId = k
                    /\ att'[a].memberKey = Some(k)]_vars

\* A was resolved with fingerprintId 2 and its member is stored at key "2".
C11_Witness ==
    /\ att["A"].outcome = "resolved"
    /\ Val(att["A"].settledBy).fingerprintId = Some(2)
    /\ att["A"].memberKey = Some("2")
    /\ members["2"].exists
    /\ members["2"].Name = Some(NameOf("A"))
    /\ ~members["1"].exists

\* now - last_seen < 120 seconds, on a heartbeat that is there.
FreshHeartbeat(doc, t) ==
    IsSome(doc.last_seen) /\ t - Val(doc.last_seen) < ReachabilityWindow

\* C12: checkDeviceStatus. The status a call reads is available exactly
\* when the device document exists, now - last_seen < 120 seconds and the
\* status is "online"; otherwise it is unavailable with the not-found
\* reason for a missing document, the offline reason for a heartbeat that
\* is missing or not that fresh, and the status reason for the rest.
C12_CheckDeviceStatus ==
    [][\A a \in Attempts :
          (att[a].pc = "idle" /\ IsSome(att'[a].deviceStatus)) =>
             LET st == Val(att'[a].deviceStatus) IN
             /\ st.available <=>
                   (/\ device.exists
                    /\ FreshHeartbeat(device, now)
                    /\ device.status = "online")
             /\ ~device.exists =>
                   st.reason = <<"Device not found - check device ID and ensure ESP32 is registered">>
             /\ (device.exists /\ ~FreshHeartbeat(device, now)) =>
                   st.reason[1] = "Device offline - last seen "
             /\ (/\ device.exists
                 /\ FreshHeartbeat(device, now)
                 /\ device.status /= "online") =>
                   st.reason[1] = "Device status: "]_vars

\* The step writes the mailbox: a command, a cancel or a device report
\* (each write carries a new server timestamp, so it is a mutation even
\* when the modelled fields stay as they were).
MailboxWritten ==
    \/ mailbox' /= mailbox
    \/ IsCancelCall /\ mailbox.exists
    \/ \E a \in Attempts : att[a].pc = "writing" /\ att'[a].pc = "subscribing"
    \/ capturing' /= capturing

\* C13: passive observation. While the listener is registered every
\* mutation of the mailbox is handed to it, nothing handed to it is lost,
\* and each existing version handed over calls onStatusChange with that
\* version's status, fingerprintId and message, whatever its tempId and
\* whatever the attempt is doing; once unsubscribed, the listener is
\* called no more.
C13_PassiveObservation ==
    [][/\ (listener.sub = "open" /\ listener'.sub = "open") =>
             /\ MailboxWritten =>
                   /\ listener'.queue = Append(listener.queue, mailbox')
                   /\ listener'.seen = listener.seen
             /\ ~MailboxWritten =>
                   \/ listener' = listener
                   \/ /\ listener.queue /= <<>>
                      /\ listener'.queue = Tail(listener.queue)
                      /\ LET d == Head(listener.queue) IN
                         IF d.exists
                         THEN /\ Len(listener'.seen) = Len(listener.seen) + 1
                              /\ SubSeq(listener'.seen, 1, Len(listener.seen))
                                    = listener.seen
                              /\ LET u == listener'.seen[Len(listener'.seen)] IN
                                 /\ u.status = d.status
                                 /\ u.fingerprintId = d.fingerprintId
                                 /\ u.message = d.message
                                 /\ u.tempId = d.tempId
                         ELSE listener'.seen = listener.seen
       /\ listener.sub = "closed" => listener' = listener]_vars

\* With no attempt begun, the listener has been called with the stale
\* command and with its cancellation, and has then been unsubscribed
\* before the operator's own command was written.
C13_Witness ==
    /\ listener.sub = "closed"
    /\ Len(listener.seen) = 2
    /\ listener.seen[1].tempId = StaleTempId
    /\ listener.seen[1].status = "completed"
    /\ listener.seen[2].tempId = StaleTempId
    /\ listener.seen[2].status = "cancelled"
    /\ mailbox.tempId = TempId("A")

\* What ended a rejected attempt.
RejectionKind(r) ==
    IF r.deviceStatus = None THEN "validation"
    ELSE IF ~Val(r.deviceStatus).available THEN "unavailable"
    ELSE IF r.timer = "fired" THEN "timeout"
    ELSE IF r.sub = "errored" THEN "connection"
    ELSE IF IsSome(r.settledBy) /\ Val(r.settledBy).status = "failed"
    THEN "hardware"
    ELSE IF IsSome(r.settledBy) /\ Val(r.settledBy).status = "cancelled"
    THEN "cancelled"
    ELSE "other"

\* C14: distinct error kinds. Two attempts rejected for different reasons
\* (validation, unavailable device, timeout, hardware failure, cancel,
\* connection error) are never reported with the same error type.
C14_DistinctErrorKinds ==
    \A a, b \in Attempts :
        (/\ att[a].outcome = "rejected"
         /\ att[b].outcome = "rejected"
         /\ RejectionKind(att[a]) /= RejectionKind(att[b])) =>
            att[a].type /= att[b].type

\* C15: no automatic retry. A call draws a tempId and writes a command
\* once, while it is still pending; every pending command written is some
\* call's one command; the tempId of a call (a retry included) differs from
\* that of the command it overwrites and from every other call's; and the
\* snapshot that settles a call carries that call's tempId.
C15_NoAutomaticRetry ==
    [][/\ \A a \in Attempts :
             /\ att'[a].tempId /= att[a].tempId =>
                   /\ att[a].tempId = NoTempId
                   /\ att[a].outcome = "pending"
                   /\ mailbox' = EnrollmentCommand(att'[a].tempId,
                                                    Val(att[a].data).Name)
                   /\ mailbox.exists => att'[a].tempId /= mailbox.tempId
                   /\ \A b \in Attempts \ {a} : att'[a].tempId /= att[b].tempId
             /\ IsSome(att'[a].settledBy) =>
                   Val(att'[a].settledBy).tempId = att'[a].tempId
       /\ (MailboxWritten /\ mailbox'.status = "pending") =>
             \E a \in Attempts : att'[a].tempId /= att[a].tempId]_vars

\* A's call was rejected by a failed status; B, the retry of it, enrolled
\* the member, and the caller of A caught the device's message.
C15_Witness ==
    /\ att["A"].outcome = "rejected"
    /\ IsSome(att["A"].settledBy)
    /\ Val(att["A"].settledBy).status = "failed"
    /\ Thrown(att["A"]) = <<"sensor timeout">>
    /\ IsSome(att["B"].data)
    /\ RetryAttemptOf(Val(att["B"].data)) = 1
    /\ att["B"].outcome = "resolved"
    /\ members[Val(att["B"].memberKey)].Name = Some(NameOf("A"))

\* How many of the three ways a wait can end have happened to a call: a
\* settling snapshot, the timer, a listener error.
Endings(r) ==
    Cardinality({w \in {"snapshot", "timer", "error"} :
        \/ w = "snapshot" /\ IsSome(r.settledBy)
        \/ w = "timer" /\ r.timer = "fired"
        \/ w = "error" /\ r.sub = "errored"})

\* C16: single settlement. A call that wrote its command and is over ended
\* in exactly one way, and is resolved exactly when that way was a
\* completed status; no step changes anything of a call that is over; a
\* call whose wait was resolved only goes on to its one Member write; and
\* each step that writes Member documents writes one, for such a call.
C16_SingleSettlement ==
    [][/\ \A a \in Attempts :
             /\ (att'[a].pc \in {"finalizing", "done"}
                    /\ att'[a].tempId /= NoTempId) =>
                   /\ Endings(att'[a]) = 1
                   /\ att'[a].pc = "done" =>
                         (att'[a].outcome = "resolved" <=>
                            /\ IsSome(att'[a].settledBy)
                            /\ Val(att'[a].settledBy).status = "completed")
             /\ att[a].pc = "done" => att'[a] = att[a]
             /\ att[a].pc = "finalizing" =>
                   \/ att'[a] = att[a]
                   \/ /\ att'[a] = [att[a] EXCEPT !.pc = "done",
                                       !.outcome = "resolved",
                                       !.memberKey = att'[a].memberKey]
                      /\ IsSome(att'[a].memberKey)
                      /\ members'[Val(att'[a].memberKey)] /=
                            members[Val(att'[a].memberKey)]
       /\ members' /= members =>
             /\ Cardinality({k \in MemberKeys : members'[k] /= members[k]}) = 1
             /\ Cardinality({a \in Attempts : att'[a] /= att[a]}) = 1
             /\ \E a \in Attempts :
                   att[a].pc = "finalizing" /\ att'[a].pc = "done"]_vars

\* A's call was rejected by a failed status, and after that a cancel was
\* written to its command and its three minutes passed.
C16_Witness ==
    /\ att["A"].pc = "done"
    /\ IsSome(att["A"].settledBy)
    /\ Val(att["A"].settledBy).status = "failed"
    /\ cancelCalls /= <<>>
    /\ "A" \in cancelCalls[1]
    /\ mailbox.tempId = att["A"].tempId
    /\ mailbox.status = "cancelled"
    /\ now = MaxTime

\* C17: at most one active command. A call never writes its command over
\* a command of another call that is still pending or in progress.
C17_OneActiveCommand ==
    [][\A a \in Attempts :
          att'[a].tempId /= att[a].tempId =>
             ~(/\ mailbox.exists
               /\ mailbox.status \in {"pending", "in_progress"}
               /\ mailbox.tempId /= att'[a].tempId)]_vars

\* A status that would end the wait of the call with this tempId.
EndsWait(doc, tempId) ==
    /\ doc.exists
    /\ doc.tempId = tempId
    /\ \/ doc.status = "completed" /\ IsSome(doc.fingerprintId)
       \/ doc.status \in {"failed", "cancelled"}

\* x waits while the mailbox holds y's command, and nothing still to be
\* delivered to x ends its wait.
SupersededBy(x, y) ==
    /\ att[x].pc = "waiting"
    /\ att[y].tempId /= NoTempId
    /\ mailbox.tempId = att[y].tempId
    /\ \A i \in 1..Len(att[x].queue) : ~EndsWait(att[x].queue[i], att[x].tempId)

\* C18: superseded attempt. Once y's command has replaced x's while x
\* waits, x ignores every status carrying y's tempId, and is in the end
\* rejected with the timeout error; if y is resolved by the completed
\* status of its command, y's Member document, at that fingerprintId, is the
\* only one.
C18_Superseded ==
    /\ [][\A x \in Attempts :
             (Consumes(x) /\ Head(att[x].queue).tempId /= att[x].tempId) =>
                att'[x] = [att[x] EXCEPT !.queue = Tail(@)]]_vars
    /\ [](\A x \in Attempts : \A y \in Attempts \ {x} :
             (/\ att[y].outcome = "resolved"
              /\ att[x].tempId /= NoTempId
              /\ att[x].settledBy = None) =>
                /\ att[x].memberKey = None
                /\ att[y].memberKey =
                      Some(MemberKey(Val(Val(att[y].settledBy).fingerprintId)))
                /\ \A k \in MemberKeys :
                      members[k].exists <=> att[y].memberKey = Some(k))
    /\ \A x \in Attempts : \A y \in Attempts \ {x} :
          SupersededBy(x, y) ~> (att[x].error = Some(TimeoutMessage))

\* B's command replaced A's; B enrolled its member with the completed
\* status of its command and A, which had been handed that status too, was
\* rejected by its timer.
C18_Witness ==
    /\ att["B"].outcome = "resolved"
    /\ att["B"].memberKey = Some("2")
    /\ members["2"].exists
    /\ ~members["1"].exists
    /\ mailbox.tempId = att["B"].tempId
    /\ mailbox.status = "completed"
    /\ att["A"].tempId /= NoTempId
    /\ att["A"].timer = "fired"
    /\ att["A"].error = Some(TimeoutMessage)

\* C19: bounded attempt. A call that wrote its command is in the end over,
\* whatever the device reports or fails to report, whether or not a cancel
\* is written and whether or not the listener fails; while it waits its
\* timer is armed, and once the timer has fired it is over.
C19_BoundedAttempt ==
    /\ [](\A a \in Attempts :
             /\ att[a].pc = "waiting" => att[a].timer = "armed"
             /\ att[a].timer = "fired" =>
                   att[a].pc = "done" /\ att[a].outcome = "rejected")
    /\ \A a \in Attempts :
          (att[a].tempId /= NoTempId) ~> (att[a].pc = "done")

\* A call was rejected by its timer while the mailbox held, for its own
\* command, a completed status without a fingerprintId.
C19_Witness ==
    \E a \in Attempts :
        /\ att[a].timer = "fired"
        /\ att[a].pc = "done"
        /\ mailbox.tempId = att[a].tempId
        /\ mailbox.status = "completed"
        /\ mailbox.fingerprintId = None

\* C20: progress is not terminal. A call handed a pending or in_progress
\* status of its own command stays as it was, waiting with its listener
\* open and its timer armed, and a call that waits is settled by the next
\* failed, cancelled or completed-with-fingerprintId status of its command
\* that it is handed.
C20_ProgressNotTerminal ==
    [][\A a \in Attempts :
          /\ (/\ Consumes(a)
              /\ Head(att[a].queue).tempId = att[a].tempId
              /\ Head(att[a].queue).status \in {"pending", "in_progress"}) =>
                /\ att'[a] = [att[a] EXCEPT !.queue = Tail(@)]
                /\ att'[a].pc = "waiting"
                /\ att'[a].sub = "open"
                /\ att'[a].timer = "armed"
          /\ (/\ Consumes(a)
              /\ att[a].pc = "waiting"
              /\ EndsWait(Head(att[a].queue), att[a].tempId)) =>
                /\ att'[a].pc \in {"finalizing", "done"}
                /\ att'[a].settledBy = Some(Head(att[a].queue))]_vars

\* A call has been handed the in_progress status of its command, the
\* latest version of the mailbox, and still waits.
C20_Witness ==
    \E a \in Attempts :
        /\ att[a].pc = "waiting"
        /\ att[a].sub = "open"
        /\ att[a].timer = "armed"
        /\ mailbox.tempId = att[a].tempId
        /\ mailbox.status = "in_progress"
        /\ att[a].queue = <<>>

\* C21: timeout leaves the mailbox unchanged. The step in which a call's
\* timer fires writes nothing: the mailbox document, the Member documents
\* and what the listeners are still to be handed stay as they were.
C21_TimeoutLeavesMailbox ==
    [][\A a \in Attempts :
          (att[a].timer = "armed" /\ att'[a].timer = "fired") =>
             /\ ~MailboxWritten
             /\ mailbox' = mailbox
             /\ members' = members
             /\ listener' = listener
             /\ \A b \in Attempts \ {a} : att'[b] = att[b]]_vars

\* A call was rejected by its timer and its command is still pending in
\* the mailbox.
C21_Witness ==
    \E a \in Attempts :
        /\ att[a].timer = "fired"
        /\ att[a].error = Some(TimeoutMessage)
        /\ mailbox.tempId = att[a].tempId
        /\ mailbox.status = "pending"

\* C22: cancel isolation.  The only cancels of SpecPage are those operator
\* "A" makes from the page; none of them marks the command of another
\* operator's attempt cancelled, and no other attempt is ever rejected as
\* cancelled.
C22_CancelIsolation ==
    /\ [](\A b \in Attempts \ {"A"} : att[b].error /= Some(CancelledMessage))
    /\ [][\A b \in Attempts \ {"A"} :
            (IsCancelCall /\ mailbox.exists /\ att[b].tempId /= NoTempId
                /\ mailbox.tempId = att[b].tempId)
            => mailbox'.status /= "cancelled"]_vars

\* The mailbox holds, for the command of call a, the completed status with
\* the fingerprintId the device stored the enrollment under.
DeviceHolds(a) ==
    /\ att[a].tempId /= NoTempId
    /\ mailbox.exists
    /\ mailbox.tempId = att[a].tempId
    /\ mailbox.status = "completed"
    /\ FingerprintTruthy(mailbox.fingerprintId)

\* C23: lockstep.  No call is rejected while the mailbox already holds the
\* device's completed status, with its fingerprintId, for that call's
\* command; and once a call is over while the device holds a completed
\* enrollment for its command, the Member document with that fingerprintId
\* exists.
C23_Lockstep ==
    /\ [][\A a \in Attempts :
            (DeviceHolds(a) /\ att[a].pc = "waiting")
            => att'[a].outcome /= "rejected"]_vars
    /\ [](\A a \in Attempts :
            (DeviceHolds(a) /\ att[a].pc = "done")
            => members[MemberKey(Val(mailbox.fingerprintId))].exists)

\* C24: no missed status between write and subscribe.  A call's listener
\* is opened only after its command write, the opening writes nothing, and
\* the first snapshot it is handed is the mailbox as it is then, with
\* whatever status the device wrote since the command; after that the last
\* snapshot queued for an open listener is always the mailbox as it is.
C24_NoMissedStatus ==
    /\ [][\A a \in Attempts :
            (att[a].sub = "none" /\ att'[a].sub = "open") =>
               /\ att[a].pc = "subscribing"
               /\ att[a].tempId = TempId(a)
               /\ mailbox' = mailbox
               /\ att'[a].queue = <<mailbox>>]_vars
    /\ [](\A a \in Attempts :
            (att[a].sub = "open" /\ att[a].queue /= <<>>) =>
               att[a].queue[Len(att[a].queue)] = mailbox)

\* The device had reported completed for a call's command before the call
\* opened its listener: the one snapshot the call holds is that status.
C24_Witness ==
    \E a \in Attempts :
        /\ att[a].pc = "waiting"
        /\ att[a].armedAt = now
        /\ att[a].queue = <<mailbox>>
        /\ mailbox.tempId = att[a].tempId
        /\ mailbox.status = "completed"
        /\ mailbox.fingerprintId = Some(2)
        /\ ~capturing

\* C25: presence consistency.  An entry getAvailableDevices builds from
\* the device document is isOnline only if checkDeviceStatus, on the same
\* document at the same time, reports the device available; and the page's
\* handleSubmit goes on to start an attempt only when checkDeviceStatus
\* would accept the device.
C25_PresenceConsistency ==
    /\ [][page'.devices /= page.devices =>
            \A i \in 1..Len(page'.devices) :
               page'.devices[i].isOnline =>
                  checkDeviceStatus(device, now).available]_vars
    /\ [][(page.form = None /\ page'.form /= None) =>
             checkDeviceStatus(device, now).available]_vars

\* C26: enrollment page success state.  Whenever the page shows "success",
\* the call it made has resolved, the Member document of that call exists,
\* and the fingerprint ID shown is that document's.
C26_PageSuccess ==
    page.enrollmentState = "success" =>
       /\ att["A"].outcome = "resolved"
       /\ IsSome(att["A"].memberKey)
       /\ members[Val(att["A"].memberKey)].exists
       /\ page.assignedFingerprintId =
             Some(members[Val(att["A"].memberKey)].fingerprintId)

\* Call a stores its Member document in this step.
StoresMember(a) == att[a].pc = "finalizing" /\ att'[a].outcome = "resolved"

\* C27: finalization never overwrites a member.  When a call stores its
\* Member document at a key where a Member document already exists, every
\* field of that document, paymentHistory among them, is still there with
\* its value.
C27_NoOverwrite ==
    [][\A a \in Attempts : \A k \in MemberKeys :
          (StoresMember(a) /\ att'[a].memberKey = Some(k) /\ members[k].exists)
          => \A f \in DOMAIN members[k] :
                f \in DOMAIN members'[k] /\ members'[k][f] = members[k][f]]_vars

\* C28: generated gymMemberId uniqueness.  The gymMemberId a call settles
\* on differs from that of every Member stored then, and no two Member
\* documents stored hold the same gymMemberId.
C28_UniqueGymMemberId ==
    /\ [][\A a \in Attempts :
            (att[a].gymMemberId = None /\ att'[a].gymMemberId /= None) =>
               \A k \in MemberKeys :
                  members[k].exists =>
                     Get(members[k], "gymMemberId") /= att'[a].gymMemberId]_vars
    /\ [](\A k \in MemberKeys : \A j \in MemberKeys \ {k} :
            (members[k].exists /\ members[j].exists) =>
               members[k].gymMemberId /= members[j].gymMemberId)

\* The member was billed today by recordTierBasedPayment.
PaidTodayByTier(doc) ==
    /\ doc.exists
    /\ Get(doc, "Payment_Status") = Some("Paid")
    /\ Get(doc, "lastPaymentDate") = Some(today)
    /\ Get(doc, "nextPaymentDueDate") = Some(DaysLater(today))

\* C29: payment then status sweep.  recordTierBasedPayment leaves the
\* member Paid with a due date 30 days ahead; a member so billed today is
\* not among getOverdueMembers, and an updatePaymentStatuses run on the
\* same day leaves it Paid.
C29_PaidSurvivesSweep ==
    /\ [][\A k \in MemberKeys :
            (payments'[k] /= payments[k] /\ members[k].exists) =>
               PaidTodayByTier(members'[k])]_vars
    /\ [](\A k \in MemberKeys :
            PaidTodayByTier(members[k]) =>
               k \notin getOverdueMembers(members, today))
    /\ [][\A k \in MemberKeys :
            (PaidTodayByTier(members[k]) /\ members' = Sweep(members, today))
            => Get(members'[k], "Payment_Status") = Some("Paid")]_vars

\* C30: gym info cache isolation.  Every getGymInfo(userId) call that has
\* returned, returned the gym assigned to userId in gym_admins.
C30_CacheIsolation ==
    \A i \in 1..Len(auth.calls) :
        auth.calls[i].pc = "returned" =>
           Val(auth.calls[i].result).id = GymOf(auth.calls[i].userId)


====
